---- MODULE Spec2Model ----
(***************************************************************************)
(* A model of chat_backend/app/routers/ws.py: the ConnectionManager        *)
(* (registry of live WebSocket connections per user) and the ws_chat       *)
(* handler, one asyncio task per accepted connection.  asyncio is          *)
(* cooperative: the code between two awaits runs atomically, so every      *)
(* action below is the code from one await to the next.                    *)
(***************************************************************************)
EXTENDS Integers, FiniteSets, Sequences, TLC

\* ---------------------------------------------------------------- bounds
NConn == 3          \* WebSocket connections (one ws_chat task each)
NUser == 2          \* user ids a token can resolve to
MaxClock == 1       \* datetime.utcnow() returns one of 0..MaxClock
NSender == 1        \* connections whose client sends envelopes (1..NSender)

Conns == 1..NConn
Users == 1..NUser

\* the values datetime.utcnow() can return
Instants == 0..MaxClock

\* status.WS_1008_POLICY_VIOLATION, status.WS_1011_INTERNAL_ERROR
WS_1008_POLICY_VIOLATION == 1008
WS_1011_INTERNAL_ERROR == 1011

None == "None"      \* Python's None: what dict.get returns for an absent key

VARIABLES
    active,     \* manager.active: Dict[int, Set[WebSocket]]
    pc,         \* position of each ws_chat task
    user_id,    \* ws_chat local: the id auth_ws_token returned (0: none yet)
    data,       \* ws_chat local: the envelope receive_json returned
    stamp,      \* the utcnow() value put into server_message
    delivered,  \* ws_chat local
    ws,         \* send_to_user: the connection whose send_json is awaited
    remove,     \* send_to_user local: connections whose send raised
    it_used,    \* send_to_user: the set iterator's si_used (size at creation)
    orig,       \* the members of conns when the iterator was created
    tried,      \* number of send_json calls per connection in this broadcast
    detached,   \* conns no longer is the set stored in manager.active
    relayed,    \* <<connection, message>> pairs whose send_json returned
    out,        \* system events this task sent on its own socket, this envelope
    online,     \* what is_online(to_id) returned for this envelope
    closecode,  \* code of the websocket.close the task attempted (0: none)
    sock,       \* ws_chat: the connection whose send_json it awaits (0: none)
    alive,      \* the peer of the connection is there and the socket is open
    cred,       \* what lines 82-91 made of the token the client presented
    raised,     \* an exception left ws_chat (no except clause caught it)
    prev_to,    \* the user the envelope the task acked last was for (0: none)
    reg,        \* a ConnectionManager().active driven call by call (RegSpec)
    absmap,     \* the mathematical map user -> set that RegSpec compares it with
    last        \* the last call RegSpec made, and the sends it made

vars == <<active, pc, user_id, data, stamp, delivered, ws, remove, it_used,
          orig, tried, detached, relayed, out, online, closecode,
          sock, alive, cred, raised, prev_to, reg, absmap, last>>

\* ------------------------------------------------------ ConnectionManager

EmptyMap == [k \in {} |-> {}]

\* self.active.get(user_id, set())
Get(act, u) == IF u \in DOMAIN act THEN act[u] ELSE {}

\* self.active.pop(user_id, None)
Pop(act, u) == [k \in DOMAIN act \ {u} |-> act[k]]

\* (mutant of connect: self.active[user_id] = {websocket})
connect_replace(act, u, c) ==
    [k \in DOMAIN act \cup {u} |-> IF k = u THEN {c} ELSE act[k]]

\* connect, after websocket.accept() returned:
\* self.active.setdefault(user_id, set()).add(websocket)
connect(act, u, c) ==
    [k \in DOMAIN act \cup {u} |-> IF k = u THEN Get(act, u) \cup {c} ELSE act[k]]


\* (mutant of disconnect: the emptied set is left under its key)
disconnect_keep(act, u, c) ==
    IF Get(act, u) = {} THEN act ELSE [act EXCEPT ![u] = act[u] \ {c}]

disconnect(act, u, c) ==
    IF Get(act, u) = {}
    THEN act
    ELSE IF act[u] \ {c} = {}
         THEN Pop(act, u)
         ELSE [act EXCEPT ![u] = act[u] \ {c}]

is_online(act, u) == Get(act, u) # {}

\* (mutant of send_to_user_end: any failed send drops the user)
send_to_user_drop(act, u, det, rem) ==
    IF rem # {} /\ u \in DOMAIN act THEN Pop(act, u) ELSE act

\* send_to_user, lines 41-44, once the for loop has ended.  conns is the set
\* object fetched at line 34: the set stored under user_id, or, when that
\* key was popped in the meantime (det), an orphan that nobody adds to.
send_to_user_end(act, u, det, rem) ==
    LET conns == IF det THEN {} ELSE Get(act, u) \ rem
    IN  IF conns = {} /\ u \in DOMAIN act
        THEN Pop(act, u)
        ELSE IF det THEN act ELSE [act EXCEPT ![u] = conns]

\* ------------------------------------------------------------- envelopes

\* The `to` values a client can put into the JSON object: an integer, the
\* JSON literal true (Python's True, a bool, which is an int equal to 1),
\* a string, or no `to` key at all.
ToInt(u) == [kind |-> "int", val |-> u]
ToTrue == [kind |-> "bool", val |-> 1]
ToStr == [kind |-> "str", val |-> 0]
ToAbsent == [kind |-> "absent", val |-> 0]

\* An inbound JSON object; `from` is a key the code never reads: the set
\* of the user ids the object gives under it (empty: no such key).
Envelope(t, ty, co, fu, cm, fr) ==
    [to |-> t, type |-> ty, content |-> co, file_url |-> fu,
     client_msg_id |-> cm, from |-> fr]

\* The objects the clients send: a text to user 1, an image to every other
\* user with each optional key but client_msg_id and with a `from` key
\* naming user 1, and one object for each `to` that is not an integer.
Envelopes ==
    {Envelope(ToInt(1), None, "hi", None, "abc", {})}
        \cup {Envelope(ToInt(u), "image", None, "f.png", None, {1}) : u \in Users \ {1}}
        \cup {Envelope(ToTrue, "text", "yo", None, "t", {}),
              Envelope(ToStr, None, "hi", None, "s", {}),
              Envelope(ToAbsent, "audio", None, "a.ogg", None, {})}

NoData ==
    [to |-> [kind |-> "absent", val |-> 0], type |-> None, content |-> None,
     file_url |-> None, client_msg_id |-> None, from |-> {}]

\* isinstance(to_id, int)
isinstance_int(t) == t.kind \in {"int", "bool"}

\* The dictionary key a `to` value is: hash(True) = hash(1) and True == 1.
Key(t) == t.val

\* data.get("type", "text")
GetDefault(v, dflt) == IF v = None THEN dflt ELSE v

\* f"{user_id}-{datetime.utcnow().timestamp()}"
server_msg_id(u, t) == <<u, t>>

\* (mutant of server_message: a `from` key of the envelope is believed)
server_message_spoofable(u, d, t) ==
    [system |-> FALSE, event |-> "message",
     from |-> IF d.from = {} THEN u ELSE CHOOSE x \in d.from : TRUE, to |-> d.to,
     type |-> GetDefault(d.type, "text"), content |-> d.content,
     file_url |-> d.file_url, client_msg_id |-> d.client_msg_id,
     server_msg_id |-> server_msg_id(u, t), timestamp |-> t]

\* lines 124-135
server_message(u, d, t) ==
    [system |-> FALSE, event |-> "message", from |-> u, to |-> d.to,
     type |-> GetDefault(d.type, "text"), content |-> d.content,
     file_url |-> d.file_url, client_msg_id |-> d.client_msg_id,
     server_msg_id |-> server_msg_id(u, t), timestamp |-> t]

\* (mutant of ack: delivered is always true)
ack_always_delivered(d, msg, dlv) ==
    [system |-> TRUE, event |-> "ack", client_msg_id |-> d.client_msg_id,
     server_msg_id |-> msg.server_msg_id, delivered |-> TRUE]

\* (mutant of delivered_after_send: delivered only if some send returned)
delivered_if_sent(rel) == rel # {}

\* line 141: delivered = True, whatever the sends of send_to_user did
delivered_after_send(rel) == TRUE

\* lines 144-150
ack(d, msg, dlv) ==
    [system |-> TRUE, event |-> "ack", client_msg_id |-> d.client_msg_id,
     server_msg_id |-> msg.server_msg_id, delivered |-> dlv]

\* lines 116-120
error_event == [system |-> TRUE, event |-> "error", error |-> "Invalid 'to' user id"]

\* lines 97-102
connected_event(u, t) ==
    [system |-> TRUE, event |-> "connected", user_id |-> u, online_at |-> t]

\* ---------------------------------------------------------------- tokens

\* What a client can put into the `token` query parameter: nothing, the
\* empty string, a string jwt.decode does not accept (not a JWT, a wrong
\* signature, an expired one), a signed JWT without `sub`, and a signed
\* JWT whose `sub` is a string: digits naming a user, or other text.
\* (jwt.decode raises JWTClaimsError, a JWTError, for a `sub` that is not
\* a string.)
Token(k, n) == [kind |-> k, sub |-> n]
Tokens ==
    {Token(k, 0) : k \in {"absent", "empty", "undecodable", "nosub", "textsub"}}
        \cup {Token("digits", u) : u \in Users}

\* line 83: not token
is_falsy(tok) == tok.kind \in {"absent", "empty"}

\* (mutant of auth_ws_token: int(sub) without the `sub is None` test, so
\* that int(None) raises TypeError, which line 62 does not catch)
auth_ws_token_unchecked(tok) ==
    IF tok.kind = "digits"
    THEN [raises |-> "nothing", id |-> tok.sub]
    ELSE [raises |-> IF tok.kind = "nosub" THEN "TypeError" ELSE "ValueError",
          id |-> 0]

\* lines 51-63: the id int(sub) gives, or the exception that leaves it.
\* JWTError (line 57), the ValueError of line 60 and that of int() (line
\* 61) all are turned into ValueError at lines 62-63.
auth_ws_token(tok) ==
    IF tok.kind = "digits"
    THEN [raises |-> "nothing", id |-> tok.sub]
    ELSE [raises |-> "ValueError", id |-> 0]

\* An awaited accept, send_json or receive on connection c raises only
\* once the peer is gone or the socket is closed.
CanRaise(c) == ~alive[c]

\* ------------------------------------------------------------------ Init

Init ==
    /\ active = EmptyMap
    /\ pc = [s \in Conns |-> "auth"]
    /\ user_id = [s \in Conns |-> 0]
    /\ data = [s \in Conns |-> NoData]
    /\ stamp = [s \in Conns |-> 0]
    /\ delivered = [s \in Conns |-> FALSE]
    /\ ws = [s \in Conns |-> 0]
    /\ remove = [s \in Conns |-> {}]
    /\ it_used = [s \in Conns |-> 0]
    /\ orig = [s \in Conns |-> {}]
    /\ tried = [s \in Conns |-> [c \in Conns |-> 0]]
    /\ detached = [s \in Conns |-> FALSE]
    /\ relayed = [s \in Conns |-> {}]
    /\ out = [s \in Conns |-> <<>>]
    /\ online = [s \in Conns |-> FALSE]
    /\ closecode = [s \in Conns |-> 0]
    /\ sock = [s \in Conns |-> 0]
    /\ alive = [s \in Conns |-> TRUE]
    /\ cred = [s \in Conns |-> "unread"]
    /\ raised = [s \in Conns |-> FALSE]
    /\ prev_to = [s \in Conns |-> 0]
    /\ reg = EmptyMap
    /\ absmap = [u \in Users |-> {}]
    /\ last = [op |-> "init", u |-> 0, c |-> 0, before |-> EmptyMap,
               sent |-> [c \in Conns |-> 0]]

harness == <<reg, absmap, last>>
kept == <<prev_to, reg, absmap, last>>
bcast_locals == <<ws, remove, it_used, orig, tried, relayed>>
env_locals == <<data, stamp, delivered, online>>
task_ghost == <<cred, raised>>

\* The broadcasts whose conns stops being the set stored in the registry
\* when the registry goes from active to act2: their key was popped.
Orphaned(act2) ==
    [s \in Conns |->
        detached[s] \/ (pc[s] = "bcast"
                        /\ Key(data[s].to) \in DOMAIN active \ DOMAIN act2)]

\* The locals of one envelope are dead once its handling has ended: lines
\* 106-113 and 34-35 assign them anew before any of them is read.  The
\* model sets them back to their initial values at that point.
Forget(s) ==
    /\ data' = [data EXCEPT ![s] = NoData]
    /\ stamp' = [stamp EXCEPT ![s] = 0]
    /\ delivered' = [delivered EXCEPT ![s] = FALSE]
    /\ online' = [online EXCEPT ![s] = FALSE]
    /\ ws' = [ws EXCEPT ![s] = 0]
    /\ remove' = [remove EXCEPT ![s] = {}]
    /\ it_used' = [it_used EXCEPT ![s] = 0]
    /\ orig' = [orig EXCEPT ![s] = {}]
    /\ tried' = [tried EXCEPT ![s] = [c \in Conns |-> 0]]
    /\ relayed' = [relayed EXCEPT ![s] = {}]
    /\ out' = [out EXCEPT ![s] = <<>>]
    /\ sock' = [sock EXCEPT ![s] = 0]

\* ------------------------------------------------------- ws_chat, 82-102

\* lines 83-86: no token
NoToken(s, tok) ==
    /\ pc[s] = "auth"
    /\ is_falsy(tok)
    /\ pc' = [pc EXCEPT ![s] = "closed"]
    /\ closecode' = [closecode EXCEPT ![s] = WS_1008_POLICY_VIOLATION]
    /\ cred' = [cred EXCEPT ![s] = "missing"]
    /\ alive' = [alive EXCEPT ![s] = FALSE]
    /\ UNCHANGED <<active, user_id, env_locals, bcast_locals, detached, out,
                   sock, raised, kept>>

\* lines 87-91: auth_ws_token raised.  A ValueError is caught and the
\* socket is closed with 1008; any other exception would leave ws_chat.
BadToken(s, tok) ==
    /\ pc[s] = "auth"
    /\ ~is_falsy(tok)
    /\ auth_ws_token(tok).raises # "nothing"
    /\ pc' = [pc EXCEPT ![s] = "closed"]
    /\ closecode' = [closecode EXCEPT ![s] =
            IF auth_ws_token(tok).raises = "ValueError"
            THEN WS_1008_POLICY_VIOLATION ELSE 0]
    /\ raised' = [raised EXCEPT ![s] = auth_ws_token(tok).raises # "ValueError"]
    /\ cred' = [cred EXCEPT ![s] = "rejected"]
    /\ alive' = [alive EXCEPT ![s] = FALSE]
    /\ UNCHANGED <<active, user_id, env_locals, bcast_locals, detached, out,
                   sock, kept>>

\* lines 88, 94, 20-22, 97: the token resolves to u, websocket.accept()
\* returns, the connection is registered and the connected event is sent.
Connect(s, u, t) ==
    /\ pc[s] = "auth"
    /\ \E tok \in Tokens :
            /\ ~is_falsy(tok)
            /\ auth_ws_token(tok) = [raises |-> "nothing", id |-> u]
    /\ user_id' = [user_id EXCEPT ![s] = u]
    /\ active' = connect(active, u, s)
    /\ out' = [out EXCEPT ![s] = <<connected_event(u, t)>>]
    /\ sock' = [sock EXCEPT ![s] = s]
    /\ cred' = [cred EXCEPT ![s] = "accepted"]
    /\ pc' = [pc EXCEPT ![s] = "send_connected"]
    /\ UNCHANGED <<env_locals, bcast_locals, detached, closecode, alive, raised,
                   kept>>

\* lines 88, 94, 21: websocket.accept() raised; the exception leaves ws_chat.
AcceptRaise(s) ==
    /\ pc[s] = "auth"
    /\ \E tok \in Tokens :
            ~is_falsy(tok) /\ auth_ws_token(tok).raises = "nothing"
    /\ CanRaise(s)
    /\ pc' = [pc EXCEPT ![s] = "closed"]
    /\ cred' = [cred EXCEPT ![s] = "accepted"]
    /\ raised' = [raised EXCEPT ![s] = TRUE]
    /\ UNCHANGED <<active, user_id, env_locals, bcast_locals, detached, out,
                   closecode, sock, alive, kept>>

\* line 97 returned
ConnectedSent(s) ==
    /\ pc[s] = "send_connected"
    /\ pc' = [pc EXCEPT ![s] = "recv"]
    /\ Forget(s)
    /\ UNCHANGED <<active, user_id, detached, closecode, alive, task_ghost,
                   kept>>

\* line 97 raised: it is outside the try, so the exception leaves ws_chat
\* and neither except clause runs.
ConnectedRaise(s) ==
    /\ pc[s] = "send_connected"
    /\ CanRaise(s)
    /\ pc' = [pc EXCEPT ![s] = "closed"]
    /\ raised' = [raised EXCEPT ![s] = TRUE]
    /\ Forget(s)
    /\ UNCHANGED <<active, user_id, detached, closecode, alive, cred, kept>>

\* ------------------------------------------------------ ws_chat, 156-164

\* (mutant of Leave: websocket.close(1011) without the inner try; on a
\* socket whose peer is gone it raises and the exception leaves ws_chat)
Leave_unsuppressed(s, why) ==
    LET act2 == disconnect(active, user_id[s], s)
    IN  /\ active' = act2
        /\ detached' = [Orphaned(act2) EXCEPT ![s] = FALSE]
        /\ pc' = [pc EXCEPT ![s] = "closed"]
        /\ closecode' = [closecode EXCEPT ![s] =
                            IF why = "disconnect" THEN 0 ELSE WS_1011_INTERNAL_ERROR]
        /\ alive' = [alive EXCEPT ![s] = FALSE]
        /\ Forget(s)
        /\ user_id' = [user_id EXCEPT ![s] = 0]
        /\ raised' = [raised EXCEPT ![s] = why # "disconnect" /\ CanRaise(s)]
        /\ prev_to' = [prev_to EXCEPT ![s] = 0]
        /\ UNCHANGED <<cred, harness>>

\* except WebSocketDisconnect: manager.disconnect(user_id, websocket)
\* except Exception: the same, then websocket.close(1011), whose own
\* exception is passed over.  why is "disconnect" for the first clause.
Leave(s, why) ==
    LET act2 == disconnect(active, user_id[s], s)
    IN  /\ active' = act2
        /\ detached' = [Orphaned(act2) EXCEPT ![s] = FALSE]
        /\ pc' = [pc EXCEPT ![s] = "closed"]
        /\ closecode' = [closecode EXCEPT ![s] =
                            IF why = "disconnect" THEN 0 ELSE WS_1011_INTERNAL_ERROR]
        /\ alive' = [alive EXCEPT ![s] = FALSE]
        /\ Forget(s)
        /\ user_id' = [user_id EXCEPT ![s] = 0]
        /\ prev_to' = [prev_to EXCEPT ![s] = 0]
        /\ UNCHANGED <<task_ghost, harness>>

\* ------------------------------------------------------ ws_chat, 104-150

\* The locals of the previous envelope are overwritten when the next one
\* is received.
NewEnvelope(s, d, t) ==
    /\ pc[s] = "recv"
    /\ s <= NSender
    /\ d \in Envelopes
    /\ t \in Instants
    /\ data' = [data EXCEPT ![s] = d]
    /\ stamp' = [stamp EXCEPT ![s] = IF isinstance_int(d.to) THEN t ELSE 0]
    /\ delivered' = [delivered EXCEPT ![s] = FALSE]
    /\ remove' = [remove EXCEPT ![s] = {}]
    /\ relayed' = [relayed EXCEPT ![s] = {}]

\* lines 106-121: `to` is not an int; the error event is sent
RecvInvalid(s, d, t) ==
    /\ NewEnvelope(s, d, t)
    /\ ~isinstance_int(d.to)
    /\ online' = [online EXCEPT ![s] = FALSE]
    /\ out' = [out EXCEPT ![s] = <<error_event>>]
    /\ pc' = [pc EXCEPT ![s] = "send_error"]
    /\ ws' = [ws EXCEPT ![s] = 0]
    /\ it_used' = [it_used EXCEPT ![s] = 0]
    /\ orig' = [orig EXCEPT ![s] = {}]
    /\ tried' = [tried EXCEPT ![s] = [c \in Conns |-> 0]]
    /\ detached' = [detached EXCEPT ![s] = FALSE]
    /\ sock' = [sock EXCEPT ![s] = s]
    /\ UNCHANGED <<active, user_id, closecode, alive, task_ghost, kept>>

\* lines 106-150, is_online(to_id) false: the ack is sent
RecvOffline(s, d, t) ==
    /\ NewEnvelope(s, d, t)
    /\ isinstance_int(d.to)
    /\ ~is_online(active, Key(d.to))
    /\ online' = [online EXCEPT ![s] = FALSE]
    /\ out' = [out EXCEPT ![s] =
                <<ack(d, server_message(user_id[s], d, t), FALSE)>>]
    /\ pc' = [pc EXCEPT ![s] = "send_ack"]
    /\ ws' = [ws EXCEPT ![s] = 0]
    /\ it_used' = [it_used EXCEPT ![s] = 0]
    /\ orig' = [orig EXCEPT ![s] = {}]
    /\ tried' = [tried EXCEPT ![s] = [c \in Conns |-> 0]]
    /\ detached' = [detached EXCEPT ![s] = FALSE]
    /\ sock' = [sock EXCEPT ![s] = s]
    /\ UNCHANGED <<active, user_id, closecode, alive, task_ghost, kept>>

\* lines 106-140 and 34-38, is_online(to_id) true: send_to_user fetches
\* conns, the for loop creates the set iterator and takes its first
\* element w, and send_json(message) on w is awaited.
RecvOnline(s, d, t, w) ==
    /\ NewEnvelope(s, d, t)
    /\ isinstance_int(d.to)
    /\ is_online(active, Key(d.to))
    /\ w \in Get(active, Key(d.to))
    /\ online' = [online EXCEPT ![s] = TRUE]
    /\ out' = [out EXCEPT ![s] = <<>>]
    /\ pc' = [pc EXCEPT ![s] = "bcast"]
    /\ ws' = [ws EXCEPT ![s] = w]
    /\ it_used' = [it_used EXCEPT ![s] = Cardinality(Get(active, Key(d.to)))]
    /\ orig' = [orig EXCEPT ![s] = Get(active, Key(d.to))]
    /\ tried' = [tried EXCEPT ![s] = [c \in Conns |-> IF c = w THEN 1 ELSE 0]]
    /\ detached' = [detached EXCEPT ![s] = FALSE]
    /\ UNCHANGED <<active, user_id, closecode, sock, alive, task_ghost, kept>>

\* line 106: receive_json raised WebSocketDisconnect (the peer closed)
RecvDisconnect(s) ==
    /\ pc[s] = "recv"
    /\ Leave(s, "disconnect")

\* line 106: receive_json raised something else (the text is not JSON), or
\* data.get did (the JSON value is not an object)
RecvFault(s) ==
    /\ pc[s] = "recv"
    /\ Leave(s, "fault")

\* --------------------------------------------------- send_to_user, 36-44

\* A send_json on connection c can return only while c's socket is open
\* (the bytes may be buffered though the peer is gone).
CanSend(c) == pc[c] # "closed"

\* The awaited send_json on ws[s] has returned (ok) or raised.
AfterSend(s, ok) ==
    /\ pc[s] = "bcast"
    /\ ok \in BOOLEAN
    /\ ok => CanSend(ws[s])
    /\ ~ok => CanRaise(ws[s])
    /\ remove' = [remove EXCEPT ![s] = IF ok THEN @ ELSE @ \cup {ws[s]}]
    /\ relayed' = [relayed EXCEPT ![s] =
            IF ok
            THEN @ \cup {<<ws[s], server_message(user_id[s], data[s], stamp[s])>>}
            ELSE @]

\* conns, as the suspended send_to_user of task s sees it
Conns_of(s) == IF detached[s] THEN {} ELSE Get(active, Key(data[s].to))

\* (mutant of Unvisited: the loop runs over every registered connection)
Unvisited_any(s) ==
    {c \in UNION {active[u] : u \in DOMAIN active} : tried[s][c] = 0}

\* Members of conns the iterator has not yielded
Unvisited(s) == {c \in Conns_of(s) : tried[s][c] = 0}

\* setiter_iternext: si_used != so->used
SizeChanged(s) == Cardinality(Conns_of(s)) # it_used[s]


\* (mutant of MayStop: the loop may be left before the iterator is exhausted)
MayStop_early(s) == TRUE

\* The iterator ends when it has passed every slot of the table.  The
\* members that were in the set when it was created and still are have
\* slots it walks over; a member added since may lie behind its position.
MayStop(s) == Unvisited(s) \cap orig[s] = {}

\* line 36: the iterator yields w, line 38: send_json(message) on w
BcastNext(s, ok, w) ==
    /\ AfterSend(s, ok)
    /\ ~SizeChanged(s)
    /\ w \in Unvisited(s)
    /\ ws' = [ws EXCEPT ![s] = w]
    /\ tried' = [tried EXCEPT ![s][w] = @ + 1]
    /\ UNCHANGED <<active, pc, user_id, env_locals, it_used, orig, detached,
                   out, closecode, sock, alive, task_ghost, kept>>

\* line 36: the iterator is exhausted; lines 41-44, then 141-150: the ack
\* with delivered = True is sent
BcastEnd(s, ok) ==
    /\ AfterSend(s, ok)
    /\ ~SizeChanged(s)
    /\ MayStop(s)
    /\ LET act2 == send_to_user_end(active, Key(data[s].to), detached[s], remove'[s])
       IN  /\ active' = act2
           /\ detached' = Orphaned(act2)
    /\ delivered' = [delivered EXCEPT ![s] = delivered_after_send(relayed'[s])]
    /\ out' = [out EXCEPT ![s] =
            <<ack(data[s], server_message(user_id[s], data[s], stamp[s]),
                  delivered'[s])>>]
    /\ pc' = [pc EXCEPT ![s] = "send_ack"]
    /\ sock' = [sock EXCEPT ![s] = s]
    /\ UNCHANGED <<user_id, data, stamp, online, ws, it_used, orig, tried,
                   closecode, alive, task_ghost, kept>>

\* line 36: the set changed size while send_json was awaited; the iterator
\* raises RuntimeError, which leaves send_to_user and is caught at line 158
BcastRaise(s, ok) ==
    /\ pc[s] = "bcast"
    /\ ok => CanSend(ws[s])
    /\ SizeChanged(s)
    /\ Leave(s, "iteration")

\* ------------------------------------------------ ws_chat, 116 and 144

\* the awaited send_json of the ack or of the error event returned
OwnSent(s) ==
    /\ pc[s] \in {"send_ack", "send_error"}
    /\ pc' = [pc EXCEPT ![s] = "recv"]
    /\ Forget(s)
    /\ prev_to' = [prev_to EXCEPT ![s] =
                    IF pc[s] = "send_ack" THEN Key(data[s].to) ELSE @]
    /\ UNCHANGED <<active, user_id, detached, closecode, alive, task_ghost,
                   harness>>

\* it raised WebSocketDisconnect
OwnSendDisconnect(s) ==
    /\ pc[s] \in {"send_ack", "send_error"}
    /\ CanRaise(s)
    /\ Leave(s, "disconnect")

\* it raised another exception
OwnSendFault(s) ==
    /\ pc[s] \in {"send_ack", "send_error"}
    /\ CanRaise(s)
    /\ Leave(s, "fault")

\* ------------------------------------------------------------ the peers

\* The client of connection c goes away, or the network between them
\* breaks: from now on a send on c or a receive from it can raise.
PeerGone(c) ==
    /\ pc[c] # "closed"
    /\ alive[c]
    /\ alive' = [alive EXCEPT ![c] = FALSE]
    /\ UNCHANGED <<active, pc, user_id, env_locals, bcast_locals, detached, out,
                   closecode, sock, task_ghost, kept>>

Next ==
    \/ \E s \in Conns, tok \in Tokens : NoToken(s, tok)
    \/ \E s \in Conns, tok \in Tokens : BadToken(s, tok)
    \/ \E s \in Conns, u \in Users, t \in Instants : Connect(s, u, t)
    \/ \E s \in Conns : AcceptRaise(s)
    \/ \E s \in Conns : ConnectedSent(s)
    \/ \E s \in Conns : ConnectedRaise(s)
    \/ \E s \in Conns, d \in Envelopes : RecvInvalid(s, d, 0)
    \/ \E s \in Conns, d \in Envelopes, t \in Instants : RecvOffline(s, d, t)
    \/ \E s \in Conns, d \in Envelopes, t \in Instants, w \in Conns :
            RecvOnline(s, d, t, w)
    \/ \E s \in Conns : RecvDisconnect(s)
    \/ \E s \in Conns : RecvFault(s)
    \/ \E s \in Conns, ok \in BOOLEAN, w \in Conns : BcastNext(s, ok, w)
    \/ \E s \in Conns, ok \in BOOLEAN : BcastEnd(s, ok)
    \/ \E s \in Conns, ok \in BOOLEAN : BcastRaise(s, ok)
    \/ \E s \in Conns : OwnSent(s)
    \/ \E s \in Conns : OwnSendDisconnect(s)
    \/ \E s \in Conns : OwnSendFault(s)
    \/ \E c \in Conns : PeerGone(c)

Spec == Init /\ [][Next]_vars


\* ------------------------------------------------------------- FairSpec
\* The same tasks under the scheduling the event loop gives: a task that
\* can run does run, and an awaited accept, close or send_json comes to an
\* end, by returning or by raising, unless it is a send on a connection
\* whose peer is there and has stopped reading (Hangs): that one may wait
\* forever, there is no timeout at line 38.  When a client sends its next envelope
\* or hangs up is up to the client, so no receive is required to end.

\* the connections whose peer has stopped reading
Stalled == {NConn}

\* a send_json on c may wait forever: the peer is there and does not read
Hangs(c) == c \in Stalled /\ alive[c]

\* the steps of task s that the event loop brings about
Progress(s) ==
    \/ \E tok \in Tokens : NoToken(s, tok)
    \/ \E tok \in Tokens : BadToken(s, tok)
    \/ \E u \in Users, t \in Instants : Connect(s, u, t)
    \/ AcceptRaise(s)
    \/ ~Hangs(s) /\ (ConnectedSent(s) \/ ConnectedRaise(s))
    \/ ~Hangs(s) /\ (OwnSent(s) \/ OwnSendDisconnect(s) \/ OwnSendFault(s))
    \/ /\ pc[s] = "bcast"
       /\ ~Hangs(ws[s])
       /\ \/ \E ok \in BOOLEAN, w \in Conns : BcastNext(s, ok, w)
          \/ \E ok \in BOOLEAN : BcastEnd(s, ok)
          \/ \E ok \in BOOLEAN : BcastRaise(s, ok)

FairSpec == Init /\ [][Next]_vars /\ \A s \in Conns : WF_vars(Progress(s))

\* -------------------------------------------------------------- RegSpec
\* The ConnectionManager alone, its methods called one after the other on
\* any user and connection, each call run to its end before the next.

\* send_to_user, lines 36-40, with no other task running: the for loop
\* over the members of conns; F are the connections whose send_json raises.
RECURSIVE send_loop(_, _, _)
send_loop(todo, F, st) ==
    IF todo = {}
    THEN st
    ELSE LET w == CHOOSE x \in todo : TRUE
         IN  send_loop(todo \ {w}, F,
                       [sent |-> [st.sent EXCEPT ![w] = @ + 1],
                        remove |-> IF w \in F THEN st.remove \cup {w} ELSE st.remove])

\* connect(u, c); accepted is whether websocket.accept() returned
RegConnect(u, c, accepted) ==
    /\ reg' = IF accepted THEN connect(reg, u, c) ELSE reg
    /\ absmap' = IF accepted THEN [absmap EXCEPT ![u] = @ \cup {c}] ELSE absmap
    /\ last' = [op |-> IF accepted THEN "connect" ELSE "refused", u |-> u, c |-> c,
                before |-> reg, sent |-> [x \in Conns |-> 0]]
    /\ UNCHANGED <<active, pc, user_id, env_locals, bcast_locals, detached, out,
                   closecode, sock, alive, task_ghost, prev_to>>

\* disconnect(u, c)
RegDisconnect(u, c) ==
    /\ reg' = disconnect(reg, u, c)
    /\ absmap' = [absmap EXCEPT ![u] = @ \ {c}]
    /\ last' = [op |-> "disconnect", u |-> u, c |-> c, before |-> reg,
                sent |-> [x \in Conns |-> 0]]
    /\ UNCHANGED <<active, pc, user_id, env_locals, bcast_locals, detached, out,
                   closecode, sock, alive, task_ghost, prev_to>>

\* send_to_user(u, message), the sends to the connections in F raising
RegSend(u, F) ==
    LET st == send_loop(Get(reg, u), F,
                        [sent |-> [x \in Conns |-> 0], remove |-> {}])
    IN  /\ reg' = send_to_user_end(reg, u, FALSE, st.remove)
        /\ absmap' = [absmap EXCEPT ![u] = @ \ F]
        /\ last' = [op |-> "send", u |-> u, c |-> 0, before |-> reg,
                    sent |-> st.sent]
        /\ UNCHANGED <<active, pc, user_id, env_locals, bcast_locals, detached,
                       out, closecode, sock, alive, task_ghost, prev_to>>

RegNext ==
    \/ \E u \in Users, c \in Conns, accepted \in BOOLEAN : RegConnect(u, c, accepted)
    \/ \E u \in Users, c \in Conns : RegDisconnect(u, c)
    \/ \E u \in Users, F \in SUBSET Conns : RegSend(u, F)

RegSpec == Init /\ [][RegNext]_vars

\* ================================================================ claims

\* The connections a broadcast has sent to, those whose send returned and
\* those whose send raised; the key of the user it is addressed to.
Target(s) == Key(data[s].to)
Reached(s) == {r[1] : r \in relayed[s]}
Attempted(s) == {c \in Conns : tried[s][c] > 0}

\* C1: in every reachable state of the tasks' interleaving, no key of the
\* registry map holds an empty connection set: a user id is a key exactly
\* when at least one connection is stored under it.
C1_NoEmptySet ==
    \A u \in DOMAIN active : active[u] # {}

\* C1 witness: a broadcast has removed the last connection of its user
\* after the send to it raised, and the key is gone while another user is
\* still registered.
C1_Witness ==
    \E s \in Conns :
        /\ pc[s] = "send_ack"
        /\ remove[s] # {}
        /\ Target(s) \notin DOMAIN active
        /\ DOMAIN active # {}

\* C2: the registry driven call by call is the abstract map: under every
\* user it holds exactly the connections registered and not deregistered
\* since, is_online is the non-emptiness of that set, a key exists exactly
\* for the non-empty sets, a duplicate register and a deregister of an
\* absent connection or user change nothing, and a broadcast sends once to
\* each member.
C2_RegistryIsAbstractMap ==
    /\ \A u \in Users :
        /\ Get(reg, u) = absmap[u]
        /\ is_online(reg, u) <=> absmap[u] # {}
        /\ u \in DOMAIN reg <=> absmap[u] # {}
    /\ DOMAIN reg \subseteq Users
    /\ (last.op = "connect" /\ last.c \in Get(last.before, last.u))
            => reg = last.before
    /\ (last.op = "disconnect" /\ last.c \notin Get(last.before, last.u))
            => reg = last.before
    /\ last.op = "send" =>
            \A c \in Conns :
                last.sent[c] = IF c \in Get(last.before, last.u) THEN 1 ELSE 0

\* C2 witness: a connection that was already registered under the user has
\* been registered again, next to another connection of that user.
C2_Witness ==
    /\ last.op = "connect"
    /\ last.c \in Get(last.before, last.u)
    /\ Cardinality(Get(reg, last.u)) = 2

\* C3 (as claimed): a broadcast does not end before each of the connections
\* the user had when it began, and still has, was sent to exactly once.
C3_EveryConnectionAttempted ==
    [][\A s \in Conns :
        (pc[s] = "bcast" /\ pc'[s] # "bcast") =>
            \A c \in orig[s] \cap Get(active, Target(s)) : tried[s][c] = 1]_vars

\* C4: the step that ends a broadcast removes from the registry exactly
\* the connections of the user whose send raised, keeps those whose send
\* returned, and leaves every other user's entry as it was; the sends of
\* the loop themselves leave the registry alone.
C4_EndRemovesExactlyFailed ==
    [][\A s \in Conns :
        /\ (pc[s] = "bcast" /\ pc'[s] = "send_ack") =>
            LET u == Target(s)
                ok == {r[1] : r \in relayed'[s]}
                failed == {c \in Conns : tried'[s][c] > 0} \ ok
            IN  /\ Get(active', u) = Get(active, u) \ failed
                /\ ok \cap Get(active, u) \subseteq Get(active', u)
                /\ u \in DOMAIN active' <=> Get(active', u) # {}
                /\ \A k \in Users \ {u} :
                    /\ Get(active', k) = Get(active, k)
                    /\ k \in DOMAIN active' <=> k \in DOMAIN active
        /\ (pc[s] = "bcast" /\ pc'[s] = "bcast" /\ tried'[s] # tried[s]) =>
            active' = active]_vars

\* C4 witness: a broadcast over two connections has ended, one send raised
\* and one returned; the first is gone from the registry, the second is
\* still in it.
C4_Witness ==
    \E s \in Conns :
        /\ pc[s] = "send_ack"
        /\ remove[s] # {}
        /\ Reached(s) # {}
        /\ Reached(s) \subseteq Get(active, Target(s))
        /\ remove[s] \cap Get(active, Target(s)) = {}

\* C5: the delivered flag of every ack is what is_online(to_id) returned
\* at the check made when the envelope was received, before any send.
C5_DeliveredIsOnlineAtCheck ==
    /\ [][\A s \in Conns :
            (pc[s] = "recv" /\ pc'[s] \in {"bcast", "send_ack"}) =>
                online'[s] = is_online(active, Key(data'[s].to))]_vars
    /\ [](\A s \in Conns :
            pc[s] = "send_ack" =>
                /\ Len(out[s]) = 1
                /\ out[s][1].event = "ack"
                /\ out[s][1].delivered = online[s])

\* C5 witness: the recipient was online at the check, every send of the
\* broadcast raised, the recipient has no connection left, and the ack
\* being sent says delivered.
C5_Witness ==
    \E s \in Conns :
        /\ pc[s] = "send_ack"
        /\ online[s]
        /\ Reached(s) = {}
        /\ ~is_online(active, Target(s))
        /\ out[s][1].delivered = TRUE

\* C6 (as claimed): a task that has begun the broadcast of a valid envelope
\* goes on to send the ack, whatever happens to the recipient's connection
\* set in the meantime.
C6_AckAfterEveryBroadcast ==
    [][\A s \in Conns :
        pc[s] = "bcast" => pc'[s] \in {"bcast", "send_ack"}]_vars

\* C7 (as claimed): an envelope whose `to` is not an integer is never
\* relayed and never acked.
C7_NonIntegerToRejected ==
    \A s \in Conns :
        data[s].to.kind # "int" => pc[s] \notin {"bcast", "send_ack"}

\* C8: a valid envelope whose recipient has no registered connection at
\* the check makes the task send one ack with delivered false, nothing is
\* relayed, and the registry is left as it was.
C8_OfflineAckedUndelivered ==
    /\ [][\A s \in Conns :
            (/\ pc[s] = "recv"
             /\ pc'[s] \notin {"recv", "closed"}
             /\ isinstance_int(data'[s].to)
             /\ ~is_online(active, Key(data'[s].to))) =>
                /\ pc'[s] = "send_ack"
                /\ active' = active]_vars
    /\ [](\A s \in Conns :
            (pc[s] = "send_ack" /\ ~online[s]) =>
                /\ Len(out[s]) = 1
                /\ out[s][1].event = "ack"
                /\ out[s][1].delivered = FALSE
                /\ out[s][1].client_msg_id = data[s].client_msg_id
                /\ Attempted(s) = {}
                /\ relayed[s] = {})

\* C8 witness: the ack of an envelope to an offline user is being sent
\* while other connections are registered.
C8_Witness ==
    \E s \in Conns :
        /\ pc[s] = "send_ack"
        /\ ~online[s]
        /\ Cardinality(DOMAIN active) >= 1
        /\ Target(s) \notin DOMAIN active

\* C9 (as claimed): a valid envelope to an online user ends with the ack
\* being sent, delivered true, and with one copy of the message relayed on
\* every connection the recipient then has, each carrying the ids of the ack.
C9_OnlineRelayedAndAcked ==
    [][\A s \in Conns :
        (pc[s] = "bcast" /\ pc'[s] # "bcast") =>
            /\ pc'[s] = "send_ack"
            /\ out'[s][1].delivered = TRUE
            /\ \A c \in Get(active', Target(s)) :
                /\ tried'[s][c] = 1
                /\ \E r \in relayed'[s] :
                    /\ r[1] = c
                    /\ r[2].client_msg_id = out'[s][1].client_msg_id
                    /\ r[2].server_msg_id = out'[s][1].server_msg_id]_vars

\* C10: every relayed message carries as `from` the user id of the task
\* that received the envelope, never the id another task is authenticated
\* as, whatever the envelope holds; the other fields are the envelope's.
C10_FromIsAuthenticatedIdentity ==
    \A s \in Conns : \A r \in relayed[s] :
        /\ user_id[s] \in Users
        /\ r[2].from = user_id[s]
        /\ \A s2 \in Conns :
            (user_id[s2] \in Users /\ user_id[s2] # user_id[s]) =>
                r[2].from # user_id[s2]
        /\ r[2].to = data[s].to
        /\ r[2].type = (IF data[s].type = None THEN "text" ELSE data[s].type)
        /\ r[2].content = data[s].content
        /\ r[2].file_url = data[s].file_url
        /\ r[2].client_msg_id = data[s].client_msg_id

\* C10 witness: a message was relayed by a task authenticated as user 2
\* whose envelope carried a `from` key naming user 1, while another task
\* is authenticated as user 1.
C10_Witness ==
    \E s \in Conns :
        /\ relayed[s] # {}
        /\ data[s].from # {}
        /\ user_id[s] \notin data[s].from
        /\ \E s2 \in Conns : user_id[s2] \in data[s].from

\* C11: a relayed message is sent only on connections that are registered
\* under the user it is addressed to when the send starts, which are
\* connections of that user and of no other; what ws_chat itself sends (the
\* connected, ack and error events) goes to the task's own connection only,
\* and is a system event, while what a broadcast sends is the message.
C11_RoutedOnlyToIntended ==
    [][\A s \in Conns :
        /\ \A c \in Conns :
            tried'[s][c] > tried[s][c] =>
                /\ c \in Get(active, Key(data'[s].to))
                /\ user_id[c] = Key(data'[s].to)
                /\ \A u \in DOMAIN active \ {Key(data'[s].to)} : c \notin active[u]
        /\ \A r \in relayed'[s] :
            /\ tried'[s][r[1]] > 0
            /\ r[2].system = FALSE
            /\ Key(r[2].to) = Key(data'[s].to)
        /\ sock'[s] \in {0, s}
        /\ out'[s] # <<>> => sock'[s] = s
        /\ pc'[s] \in {"send_connected", "send_ack", "send_error"} => sock'[s] = s
        /\ \A i \in DOMAIN out'[s] : out'[s][i].system = TRUE
      ]_vars

\* C11 witness: a message to another user was relayed to that user's one
\* connection while the sender has a second connection, which got nothing,
\* and the ack is being sent on the sending connection.
C11_Witness ==
    \E s \in Conns, c \in Conns, o \in Conns :
        /\ pc[s] = "send_ack"
        /\ sock[s] = s
        /\ Target(s) # user_id[s]
        /\ Reached(s) = {c}
        /\ o # s
        /\ o \in Get(active, user_id[s])
        /\ tried[s][o] = 0

\* The connections stored in the registry, under any user.
Registered == UNION {active[u] : u \in DOMAIN active}

\* C12: a connection attempt without a token, or with a token that
\* auth_ws_token rejects, ends closed with code 1008 and nothing else: the
\* connection is in the registry neither before nor after, no event was
\* sent on it, no user id was bound to it, no exception left the handler,
\* and the step that closes it leaves the registry as it was.
C12_AuthFailureClosesUnregistered ==
    /\ [](\A s \in Conns :
            /\ pc[s] = "auth" => s \notin Registered /\ out[s] = <<>>
            /\ cred[s] \in {"missing", "rejected"} =>
                /\ pc[s] = "closed"
                /\ closecode[s] = WS_1008_POLICY_VIOLATION
                /\ ~raised[s]
                /\ user_id[s] = 0
                /\ s \notin Registered
                /\ out[s] = <<>>)
    /\ [][\A s \in Conns :
            cred'[s] \in {"missing", "rejected"} /\ cred[s] # cred'[s] =>
                /\ pc[s] = "auth"
                /\ cred[s] = "unread"
                /\ active' = active]_vars

\* C12 witness: one attempt came without a token, another with a token
\* that was rejected, and both are closed while a third connection is
\* registered.
C12_Witness ==
    \E a \in Conns, b \in Conns, c \in Conns :
        /\ cred[a] = "missing"
        /\ cred[b] = "rejected"
        /\ pc[a] = "closed" /\ pc[b] = "closed"
        /\ c \in Registered
        /\ pc[c] = "recv"

\* C13: in every reachable state a connection whose handler has ended is
\* absent from the registry, however it ended: by the peer's disconnect,
\* by a fault in the loop, or by a send that raised after the connection
\* was registered, the send of the connected event included.
C13_ClosedIsDeregistered ==
    \A s \in Conns : pc[s] = "closed" => s \notin Registered

\* C14: a recipient connection that has stopped reading does not stall the
\* sender: a broadcast that has begun comes to its end, so that the ack is
\* sent (or the handler has closed) and the task is back at its receive,
\* even when one of the sends never completes.
C14_StalledRecipientDoesNotStallSender ==
    \A s \in Conns :
        (pc[s] = "bcast") ~> (pc[s] \in {"send_ack", "recv", "closed"})

\* C15: within one broadcast a send that hangs on one connection does not
\* keep the envelope from the others: a registered connection of the
\* recipient that is alive and not stalled, and that the loop has not sent
\* to yet, is sent the envelope in the end (unless it leaves the registry
\* or the broadcast is over first).
C15_HangDoesNotDelayOthers ==
    \A s \in Conns, c \in Conns :
        (pc[s] = "bcast" /\ c \in Conns_of(s) /\ ~Hangs(c) /\ tried[s][c] = 0)
            ~> (tried[s][c] > 0 \/ c \notin Conns_of(s) \/ pc[s] # "bcast")

\* C16: nothing that happens on the recipient's side reaches the sender:
\* while a task broadcasts to a user other than its own, no step (a send
\* that raises, a connection of the recipient registered or deregistered,
\* the step that resumes the loop after it) closes the sender's handler or
\* takes the sender's connection out of the registry.
C16_RecipientFaultNeverReachesSender ==
    [][\A s \in Conns :
        pc[s] = "bcast" /\ Target(s) # user_id[s] =>
            /\ pc'[s] # "closed"
            /\ s \in Registered => s \in Registered'
      ]_vars

\* C17: the registry content of user u after a broadcast to u that ran
\* while other tasks registered and deregistered connections of u is the
\* one some sequential order of those operations gives: when the broadcast
\* is over, every connection whose send failed in it is gone from u's set
\* (the failure-induced deregister took effect), and every connection that
\* was registered in the meantime, whose send did not fail and whose task
\* did not deregister it in this step, is still there.
C17_RegistryLinearizable ==
    [][\A s \in Conns :
        pc[s] = "bcast" /\ pc'[s] # "bcast" =>
            /\ \A c \in remove[s] : c \notin Get(active', Target(s))
            /\ \A c \in Get(active, Target(s)) \ orig[s] :
                c # s /\ c \notin remove[s] /\ (c = ws[s] => alive[c])
                    => c \in Get(active', Target(s))
      ]_vars

\* the positions of a task inside the try block of lines 104-150
Loop == {"recv", "bcast", "send_ack", "send_error"}

\* C18: a task that leaves its receive loop ends closed with its
\* connection deregistered in that same step: after the peer's orderly
\* disconnect no close is attempted, after any other fault the close with
\* code 1011 is, and no exception leaves the handler either way.  What
\* stops a broadcast is never an orderly disconnect.
C18_LeavingLoopDeregistersAndCloses ==
    [][\A s \in Conns :
        pc[s] \in Loop /\ pc'[s] \notin Loop =>
            /\ pc'[s] = "closed"
            /\ s \notin Registered'
            /\ closecode'[s] \in {0, WS_1011_INTERNAL_ERROR}
            /\ pc[s] = "bcast" => closecode'[s] = WS_1011_INTERNAL_ERROR
            /\ ~raised'[s]
      ]_vars

\* C18 witness: one accepted connection ended by an orderly disconnect and
\* one by a fault, closed with 1011 after its peer had gone; both are out
\* of the registry and no exception left either handler.
C18_Witness ==
    \E a \in Conns, b \in Conns :
        /\ pc[a] = "closed" /\ pc[b] = "closed"
        /\ cred[a] = "accepted" /\ cred[b] = "accepted"
        /\ ~raised[a] /\ ~raised[b]
        /\ closecode[a] = 0
        /\ closecode[b] = WS_1011_INTERNAL_ERROR
        /\ {a, b} \cap Registered = {}

\* A task is Active: it is inside its receive loop and the peer of its
\* connection is still there.
Active(s) == pc[s] \in Loop /\ alive[s]

\* C19: in every reachable state the connection of an Active task is in
\* the registry under the task's user id, so that is_online of that user
\* is true and an envelope addressed to that user is relayed to it: when a
\* broadcast is over, every connection that was registered under the
\* recipient when it began, and still is with its task Active, has been
\* sent the message.  And no step of another task takes a connection out
\* of the registry whose task is Active: such a connection leaves the
\* registry only in the step that closes its own task.
C19_ActiveIsRegisteredAndRelayedTo ==
    /\ [](\A s \in Conns :
            Active(s) => s \in Get(active, user_id[s])
                         /\ is_online(active, user_id[s]))
    /\ [][\A s \in Conns :
            pc[s] = "bcast" /\ pc'[s] # "bcast" =>
                \A c \in (orig[s] \cap Get(active, Target(s))) \ {s} :
                    Active(c) => tried[s][c] > 0]_vars
    /\ [][\A s \in Conns :
            Active(s) /\ s \in Registered /\ s \notin Registered'
                => pc'[s] = "closed"]_vars

\* C20: one task handles its envelopes one after the other.  It takes an
\* envelope only at its receive, where no send of an earlier envelope is
\* pending or still to come, and after the ack of the earlier one was
\* sent; a relayed copy is sent only inside the broadcast of the envelope
\* it copies; and the ack of an envelope is sent only once its broadcast
\* is over, every connection the loop had to visit having been sent to.
\* Hence whatever is sent for m1, copies and ack, is sent before anything
\* is sent for a later m2.
C20_PerSenderOrder ==
    /\ [](\A s \in Conns :
            pc[s] = "recv" =>
                /\ ws[s] = 0 /\ sock[s] = 0
                /\ relayed[s] = {} /\ out[s] = <<>>
                /\ \A c \in Conns : tried[s][c] = 0)
    /\ [][\A s \in Conns :
            /\ data'[s] # data[s] /\ pc'[s] # "closed" /\ pc'[s] # "recv"
                => pc[s] = "recv"
            /\ \A c \in Conns :
                tried'[s][c] > tried[s][c] => pc'[s] = "bcast" /\ ws'[s] = c
            /\ \A r \in relayed'[s] \ relayed[s] :
                /\ pc[s] = "bcast"
                /\ r[2] = server_message(user_id[s], data[s], stamp[s])
            /\ pc'[s] = "send_ack" /\ pc[s] # "send_ack" =>
                /\ pc[s] \in {"recv", "bcast"}
                /\ out'[s] = <<ack(data'[s],
                                   server_message(user_id[s], data'[s], stamp'[s]),
                                   delivered'[s])>>
                /\ pc[s] = "bcast" =>
                    /\ data'[s] = data[s]
                    /\ \A c \in orig[s] \cap Get(active, Target(s)) :
                            tried[s][c] > 0
                    /\ tried'[s] = tried[s]
            /\ pc[s] = "send_ack" => tried'[s][s] <= tried[s][s]
                                     /\ pc'[s] \in {"send_ack", "recv", "closed"}
            /\ prev_to'[s] # prev_to[s] /\ pc'[s] # "closed"
                => pc[s] = "send_ack" /\ pc'[s] = "recv"
                   /\ prev_to'[s] = Target(s)
      ]_vars

\* C20 witness: a task that has acked an envelope to a user is sending the
\* ack of its next envelope to that same user, after a broadcast of it
\* that reached two connections.
C20_Witness ==
    \E s \in Conns :
        /\ pc[s] = "send_ack"
        /\ prev_to[s] = Target(s)
        /\ Cardinality(Reached(s)) >= 2

====
